---- MODULE Spec2Model ----
(***************************************************************************)
(* Model of the /api/scan handler of backend/app.py: scan_network, its     *)
(* nested coroutine run_scan, the probe coroutine ping_ip and the          *)
(* persistence helper save_scan_to_supabase.                               *)
(*                                                                         *)
(* Strings are sequences of one-character strings, so that split, join and *)
(* the f-string formatting of an address are computed, not assumed.        *)
(* The ping flag param (line 120) and the print calls decide nothing and   *)
(* are left out.                                                           *)
(***************************************************************************)
EXTENDS Integers, Sequences, FiniteSets, TLC

VARIABLES
    pc,          \* position of scan_network
    local_ip,    \* local_ip (line 115/117)
    base,        \* base (line 119)
    devices,     \* results["devices"] (lines 122, 131)
    run,         \* which call of run_scan is executing: "none", "primary", "fallback"
    targets,     \* the addresses handed to ping_ip, in task order (line 126)
    probe,       \* one record per task of line 126: the state of its ping_ip
    order,       \* task numbers in the order in which their ping_ip returned
    responses,   \* responses (line 127), <<>> until gather returns
    idx,         \* position of the for loop of line 128 in responses
    saveIdx,     \* position of the for loop of line 146 in devices
    attempted,   \* addresses save_scan_to_supabase was called with
    stored,      \* rows inserted in table "scans"
    logged,      \* app.logger.error calls of the handler
    response,    \* what the handler returned
    exc,         \* exception that left the handler, "none" if none
    scanEntries, \* number of times the body of run_scan was entered
    assemblies   \* number of times the loop of line 128 was started

vars == <<pc, local_ip, base, devices, run, targets, probe, order, responses,
          idx, saveIdx, attempted, stored, logged, response, exc,
          scanEntries, assemblies>>

(***************************************************************************)
(* Bounds.  The source probes hosts 1..254 (range(1, 255)); the model      *)
(* probes hosts 1..MaxHost.                                                *)
(***************************************************************************)
MaxHost == 3

\* Inputs of the derivation are made of at most MaxParts dot-separated parts.
MaxParts == 5

(***************************************************************************)
(* Strings                                                                 *)
(***************************************************************************)
Digits == <<"0", "1", "2", "3", "4", "5", "6", "7", "8", "9">>

Dot == "."

\* str(n) for n >= 0, as the f-string of lines 126 and 130 formats it
RECURSIVE IntToStr(_)
IntToStr(n) ==
    IF n < 10 THEN <<Digits[n + 1]>>
    ELSE IntToStr(n \div 10) \o <<Digits[(n % 10) + 1]>>

\* s.split(".")
RECURSIVE SplitDot(_)
SplitDot(s) ==
    IF s = <<>> THEN << <<>> >>
    ELSE LET rest == SplitDot(Tail(s)) IN
         IF Head(s) = Dot THEN << <<>> >> \o rest
         ELSE << <<Head(s)>> \o Head(rest) >> \o Tail(rest)

\* ".".join(parts)
RECURSIVE JoinDot(_)
JoinDot(parts) ==
    IF parts = <<>> THEN <<>>
    ELSE IF Len(parts) = 1 THEN parts[1]
    ELSE parts[1] \o <<Dot>> \o JoinDot(Tail(parts))

\* parts[:n]
Prefix(parts, n) == SubSeq(parts, 1, IF Len(parts) < n THEN Len(parts) ELSE n)

\* A variant that keeps two parts only.
BaseOfTwoParts(ip) == JoinDot(Prefix(SplitDot(ip), 2)) \o <<Dot>>

\* line 119: ".".join(local_ip.split(".")[:3]) + "."
BaseOf(ip) == JoinDot(Prefix(SplitDot(ip), 3)) \o <<Dot>>

\* f"{base}{i}"
Addr(b, i) == b \o IntToStr(i)

\* range(1, 255): first value and the value one past the last
RangeStart == 1
RangeStop == MaxHost + 1
NumTasks == RangeStop - RangeStart

\* A variant that numbers the responses from 0.
EnumerateStartZero == RangeStart - 1

\* enumerate(responses, start=1)
EnumerateStart == 1

\* line 126: the address of every task, in task order
Candidates(b) == [k \in 1..NumTasks |-> Addr(b, RangeStart + k - 1)]

Tasks == 1..NumTasks

(***************************************************************************)
(* Inputs                                                                  *)
(***************************************************************************)
Loopback == <<"1", "2", "7", ".", "0", ".", "0", ".", "1">>

\* what socket.gethostbyname can answer: a dotted quad
ResolvableIPs == { <<"1", "9", "2", ".", "1", "6", "8", ".", "1", ".", "1", "0">> }

\* exit statuses of the ping process: 0 (reply) and 1 (no reply)
ExitStatuses == {0, 1}

NoReturnCode == -1

NoResponse ==
    [status |-> 0, local_ip |-> <<>>, devices |-> <<>>, stamped |-> FALSE, error |-> FALSE]

Unscheduled == [st |-> "created", fault |-> FALSE, rc |-> NoReturnCode, alive |-> FALSE]

(***************************************************************************)
(* Initial state: the handler has been called.                             *)
(***************************************************************************)
Init ==
    /\ pc = "resolve"
    /\ local_ip = <<>>
    /\ base = <<>>
    /\ devices = <<>>
    /\ run = "none"
    /\ targets = <<>>
    /\ probe = [k \in Tasks |-> Unscheduled]
    /\ order = <<>>
    /\ responses = <<>>
    /\ idx = 0
    /\ saveIdx = 0
    /\ attempted = <<>>
    /\ stored = <<>>
    /\ logged = <<>>
    /\ response = NoResponse
    /\ exc = "none"
    /\ scanEntries = 0
    /\ assemblies = 0

scanVars == <<run, targets, probe, order, responses, idx, scanEntries, assemblies>>
sinkVars == <<saveIdx, attempted, stored>>
outVars == <<response, exc>>

(***************************************************************************)
(* scan_network, lines 113-123                                             *)
(***************************************************************************)
\* line 115: gethostbyname answers
ResolveOk ==
    /\ pc = "resolve"
    /\ \E ip \in ResolvableIPs : local_ip' = ip
    /\ pc' = "derive"
    /\ UNCHANGED <<base, devices, logged>>
    /\ UNCHANGED <<scanVars, sinkVars, outVars>>

\* lines 116-117: gethostbyname raises
ResolveFails ==
    /\ pc = "resolve"
    /\ local_ip' = Loopback
    /\ pc' = "derive"
    /\ UNCHANGED <<base, devices, logged>>
    /\ UNCHANGED <<scanVars, sinkVars, outVars>>

\* lines 119-123
Derive ==
    /\ pc = "derive"
    /\ base' = BaseOf(local_ip)
    /\ devices' = <<>>
    /\ pc' = "try"
    /\ UNCHANGED <<local_ip, logged>>
    /\ UNCHANGED <<scanVars, sinkVars, outVars>>

(***************************************************************************)
(* run_scan, lines 125-132                                                 *)
(***************************************************************************)
\* line 126, and gather scheduling every task: the body of run_scan starts.
\* devices is the list of the enclosing call and is not reset.
RunScanStart(r) ==
    /\ run' = r
    /\ targets' = Candidates(base)
    /\ probe' = [k \in Tasks |-> Unscheduled]
    /\ order' = <<>>
    /\ responses' = <<>>
    /\ idx' = 0
    /\ scanEntries' = scanEntries + 1
    /\ pc' = "gather"
    /\ UNCHANGED <<local_ip, base, devices, logged, assemblies>>
    /\ UNCHANGED <<sinkVars, outVars>>

(***************************************************************************)
(* ping_ip, lines 95-106                                                   *)
(***************************************************************************)
\* A variant that reports every exited process as alive.
PingOnExitAny(rc) == TRUE

\* line 104: return proc.returncode == 0
PingOnExit(rc) == rc = 0

\* A variant whose handler answers True.
PingOnExceptionTrue == TRUE

\* lines 105-106: except Exception: return False
PingOnException == FALSE

Resolved(k) == probe[k].st = "done"

probeFrame ==
    /\ UNCHANGED <<pc, local_ip, base, devices, run, targets, responses, idx, logged>>
    /\ UNCHANGED <<scanEntries, assemblies>>
    /\ UNCHANGED <<sinkVars, outVars>>

\* lines 98-102: the process is created
ProbeSpawn(k) ==
    /\ pc = "gather"
    /\ probe[k].st = "created"
    /\ probe' = [probe EXCEPT ![k].st = "spawned"]
    /\ UNCHANGED order
    /\ probeFrame

\* lines 98-102 raise: the handler of line 105 answers
ProbeLaunchFault(k) ==
    /\ pc = "gather"
    /\ probe[k].st = "created"
    /\ probe' = [probe EXCEPT ![k] =
                   [st |-> "done", fault |-> TRUE, rc |-> NoReturnCode,
                    alive |-> PingOnException]]
    /\ order' = Append(order, k)
    /\ probeFrame

\* lines 103-104: the process exits with status rc
ProbeExit(k) ==
    /\ pc = "gather"
    /\ probe[k].st = "spawned"
    /\ \E rc \in ExitStatuses :
         probe' = [probe EXCEPT ![k] =
                     [st |-> "done", fault |-> FALSE, rc |-> rc,
                      alive |-> PingOnExit(rc)]]
    /\ order' = Append(order, k)
    /\ probeFrame

\* line 103 raises: the handler of line 105 answers
ProbeAwaitFault(k) ==
    /\ pc = "gather"
    /\ probe[k].st = "spawned"
    /\ probe' = [probe EXCEPT ![k] =
                   [st |-> "done", fault |-> TRUE, rc |-> NoReturnCode,
                    alive |-> PingOnException]]
    /\ order' = Append(order, k)
    /\ probeFrame

\* A variant that waits until every task has answered alive.
GatherDoneAllAlive == \A k \in Tasks : Resolved(k) /\ probe[k].alive

\* A variant that returns as soon as one task has returned.
GatherDoneFirst == \E k \in Tasks : Resolved(k)

\* line 127: gather returns once every task has returned
GatherDone == \A k \in Tasks : Resolved(k)

\* A variant that lists the results in completion order.
GatherResultsByCompletion ==
    [n \in 1..Len(order) |-> probe[order[n]].alive]

\* line 127: the results come in task order
GatherResults == [k \in Tasks |-> probe[k].alive]

GatherReturn ==
    /\ pc = "gather"
    /\ GatherDone
    /\ responses' = GatherResults
    /\ idx' = 1
    /\ assemblies' = assemblies + 1
    /\ pc' = "assemble"
    /\ UNCHANGED <<local_ip, base, devices, run, targets, probe, order, logged, scanEntries>>
    /\ UNCHANGED <<sinkVars, outVars>>

\* lines 128-132: one iteration of the loop
AssembleStep ==
    /\ pc = "assemble"
    /\ idx <= Len(responses)
    /\ devices' =
         IF responses[idx]
         THEN Append(devices,
                     [ip |-> Addr(base, EnumerateStart + idx - 1), status |-> "alive"])
         ELSE devices
    /\ idx' = idx + 1
    /\ UNCHANGED <<pc, local_ip, base, run, targets, probe, order, responses, logged>>
    /\ UNCHANGED <<scanEntries, assemblies>>
    /\ UNCHANGED <<sinkVars, outVars>>

(***************************************************************************)
(* scan_network, lines 134-142                                             *)
(***************************************************************************)
\* line 135: asyncio.run starts the coroutine
AsyncioRun ==
    /\ pc = "try"
    /\ RunScanStart("primary")

\* line 136: asyncio.run refuses to start (an event loop is already running
\* in this thread, the case the comment of line 137 names); the coroutine has
\* not been started. No RuntimeError comes out of a started run_scan: ping_ip
\* catches every Exception (line 105) and the statements after gather raise
\* none.
AsyncioRunRuntimeError ==
    /\ pc = "try"
    /\ pc' = "fallback"
    /\ UNCHANGED <<local_ip, base, devices, logged>>
    /\ UNCHANGED <<scanVars, sinkVars, outVars>>

\* lines 140-142: asyncio.run raises another Exception
AsyncioRunOtherError ==
    /\ pc = "try"
    /\ logged' = Append(logged, "Ping scan failed")
    /\ response' = [NoResponse EXCEPT !.status = 500, !.error = TRUE]
    /\ pc' = "error"
    /\ UNCHANGED <<local_ip, base, devices, exc>>
    /\ UNCHANGED <<scanVars, sinkVars>>

\* lines 138-139: run_scan is called a second time and the loop of the thread
\* runs it, as the comment of line 137 expects
FallbackRun ==
    /\ pc = "fallback"
    /\ RunScanStart("fallback")

\* lines 138-139 raise inside the except clause: no other clause of the
\* try statement applies, the exception leaves scan_network
FallbackRaises ==
    /\ pc = "fallback"
    /\ exc' = "RuntimeError"
    /\ pc' = "raised"
    /\ UNCHANGED <<local_ip, base, devices, logged, response>>
    /\ UNCHANGED <<scanVars, sinkVars>>

\* A variant in which the fallback also follows a primary run that returned.
RunScanReturnThenFallback ==
    /\ pc = "assemble"
    /\ idx > Len(responses)
    /\ pc' = IF run = "primary" THEN "fallback" ELSE "save"
    /\ saveIdx' = 1
    /\ UNCHANGED <<local_ip, base, devices, logged, attempted, stored>>
    /\ UNCHANGED <<scanVars, outVars>>

\* run_scan returns, asyncio.run (or run_until_complete) returns: line 144
RunScanReturn ==
    /\ pc = "assemble"
    /\ idx > Len(responses)
    /\ pc' = "save"
    /\ saveIdx' = 1
    /\ UNCHANGED <<local_ip, base, devices, logged, attempted, stored>>
    /\ UNCHANGED <<scanVars, outVars>>

(***************************************************************************)
(* scan_network, lines 144-156, and save_scan_to_supabase, lines 51-53     *)
(***************************************************************************)
\* lines 146-150: the insert succeeds
SaveOk ==
    /\ pc = "save"
    /\ saveIdx <= Len(devices)
    /\ attempted' = Append(attempted, devices[saveIdx].ip)
    /\ stored' = Append(stored, [ip |-> devices[saveIdx].ip,
                                 details |-> [status |-> devices[saveIdx].status]])
    /\ saveIdx' = saveIdx + 1
    /\ UNCHANGED <<pc, local_ip, base, devices, logged>>
    /\ UNCHANGED <<scanVars, outVars>>

\* A variant without the try statement: the exception leaves scan_network.
SaveFailsPropagates ==
    /\ pc = "save"
    /\ saveIdx <= Len(devices)
    /\ attempted' = Append(attempted, devices[saveIdx].ip)
    /\ exc' = "Exception"
    /\ pc' = "raised"
    /\ UNCHANGED <<local_ip, base, devices, logged, saveIdx, stored, response>>
    /\ UNCHANGED scanVars

\* lines 147-152: the insert raises; the try statement encloses the whole
\* loop, so the handler runs and the loop is over
SaveFails ==
    /\ pc = "save"
    /\ saveIdx <= Len(devices)
    /\ attempted' = Append(attempted, devices[saveIdx].ip)
    /\ logged' = Append(logged, "Supabase save_scan_to_supabase error")
    /\ pc' = "stamp"
    /\ UNCHANGED <<local_ip, base, devices, saveIdx, stored>>
    /\ UNCHANGED <<scanVars, outVars>>

\* line 146: the loop is exhausted
SaveLoopEnd ==
    /\ pc = "save"
    /\ saveIdx > Len(devices)
    /\ pc' = "stamp"
    /\ UNCHANGED <<local_ip, base, devices, logged>>
    /\ UNCHANGED <<scanVars, sinkVars, outVars>>

\* lines 154-156
ReturnReport ==
    /\ pc = "stamp"
    /\ response' = [status |-> 200, local_ip |-> local_ip, devices |-> devices,
                    stamped |-> TRUE, error |-> FALSE]
    /\ pc' = "returned"
    /\ UNCHANGED <<local_ip, base, devices, logged, exc>>
    /\ UNCHANGED <<scanVars, sinkVars>>

ProbeStep ==
    \E k \in Tasks :
        \/ ProbeSpawn(k)
        \/ ProbeLaunchFault(k)
        \/ ProbeExit(k)
        \/ ProbeAwaitFault(k)

Next ==
    \/ ResolveOk
    \/ ResolveFails
    \/ Derive
    \/ AsyncioRun
    \/ AsyncioRunRuntimeError
    \/ AsyncioRunOtherError
    \/ FallbackRun
    \/ FallbackRaises
    \/ ProbeStep
    \/ GatherReturn
    \/ AssembleStep
    \/ RunScanReturn
    \/ SaveOk
    \/ SaveFails
    \/ SaveLoopEnd
    \/ ReturnReport

Spec == Init /\ [][Next]_vars

\* Every launched ping process exits and the handler keeps running: no step
\* that can be taken is postponed forever.
FairSpec == Spec /\ WF_vars(Next)

(***************************************************************************)
(* The derivation of lines 119 and 126 on its own, applied to arbitrary    *)
(* strings.                                                                *)
(***************************************************************************)
OctetTexts ==
    { <<>>, <<"1">>, <<"2", "5", "5">>, <<"9", "9", "9">>, <<"a", "b", "c">> }

DeriveInputs ==
    { JoinDot(ps) : ps \in UNION { [1..n -> OctetTexts] : n \in 0..MaxParts } }

DeriveInit ==
    /\ pc = "derive"
    /\ local_ip \in DeriveInputs
    /\ base = <<>>
    /\ devices = <<>>
    /\ run = "none"
    /\ targets = <<>>
    /\ probe = [k \in Tasks |-> Unscheduled]
    /\ order = <<>>
    /\ responses = <<>>
    /\ idx = 0
    /\ saveIdx = 0
    /\ attempted = <<>>
    /\ stored = <<>>
    /\ logged = <<>>
    /\ response = NoResponse
    /\ exc = "none"
    /\ scanEntries = 0
    /\ assemblies = 0

\* line 126: the list of addresses the probes are created for
ListCandidates ==
    /\ pc = "try"
    /\ targets' = Candidates(base)
    /\ pc' = "listed"
    /\ UNCHANGED <<local_ip, base, devices, logged>>
    /\ UNCHANGED <<run, probe, order, responses, idx, scanEntries, assemblies>>
    /\ UNCHANGED <<sinkVars, outVars>>

DeriveNext ==
    \/ Derive
    \/ ListCandidates

DeriveSpec == DeriveInit /\ [][DeriveNext]_vars

(***************************************************************************)
(* Vocabulary of the properties                                            *)
(***************************************************************************)
IsDigit(c) == \E d \in 1..10 : Digits[d] = c

AllDigits(p) == p # <<>> /\ \A i \in 1..Len(p) : IsDigit(p[i])

DigitValue(c) == (CHOOSE d \in 1..10 : Digits[d] = c) - 1

\* the number a string of digits denotes
RECURSIVE StrToInt(_)
StrToInt(p) ==
    IF p = <<>> THEN 0
    ELSE 10 * StrToInt(SubSeq(p, 1, Len(p) - 1)) + DigitValue(p[Len(p)])

\* a dotted quad: four parts, each one to three digits denoting at most 255
WellFormed(s) ==
    LET parts == SplitDot(s) IN
    /\ Len(parts) = 4
    /\ \A i \in 1..4 :
         /\ AllDigits(parts[i])
         /\ Len(parts[i]) <= 3
         /\ StrToInt(parts[i]) <= 255

\* the last dot-separated part of an address, as a number
LastOctet(ip) ==
    LET parts == SplitDot(ip) IN StrToInt(parts[Len(parts)])

AllResolved == \A k \in Tasks : Resolved(k)

IpsOf(ds) == { ds[n].ip : n \in 1..Len(ds) }

AliveTargets == { targets[k] : k \in { j \in Tasks : probe[j].alive } }

\* the devices of a report for the probe results at hand
RECURSIVE AliveFrom(_)
AliveFrom(k) ==
    IF k > NumTasks THEN <<>>
    ELSE (IF probe[k].alive THEN << [ip |-> targets[k], status |-> "alive"] >> ELSE <<>>)
         \o AliveFrom(k + 1)

SinkFailed == Len(attempted) > Len(stored)

Ended == pc \in {"returned", "error", "raised"}

Phase ==
    IF pc \in {"resolve", "derive", "try", "fallback"} THEN "Idle"
    ELSE IF pc \in {"gather", "assemble", "save", "stamp"} THEN "Scanning"
    ELSE IF pc = "returned" THEN "Completed"
    ELSE "Failed"

(***************************************************************************)
(* Properties                                                              *)
(***************************************************************************)

\* C1: under every interleaving of probe completions, nothing is appended to
\* devices, responses is not available and no report is returned before every
\* probe of the scan has resolved.
AllProbesAwaited ==
    (\/ responses # <<>>
     \/ devices # <<>>
     \/ pc \in {"assemble", "save", "stamp", "returned"}
     \/ response.status = 200)
    => AllResolved

\* C1 witness: a report was returned after the last task resolved first.
AllProbesAwaitedWitness ==
    /\ pc = "returned"
    /\ order[1] = NumTasks
    /\ response.devices # <<>>

\* C2: whatever the probes answered and in whatever order they completed, the
\* devices of the returned report are exactly the addresses whose probe
\* answered alive, each with status "alive", in ascending last-octet order;
\* the sequence is therefore a function of the alive/dead assignment alone.
DevicesAreAliveAscending ==
    pc = "returned" =>
        LET d == response.devices IN
        /\ IpsOf(d) = AliveTargets
        /\ \A n \in 1..Len(d) : d[n].status = "alive"
        /\ \A m, n \in 1..Len(d) : m < n => LastOctet(d[m].ip) < LastOctet(d[n].ip)

\* C2 witness: a report with two devices whose probes completed in descending
\* order.
DevicesAreAliveAscendingWitness ==
    /\ pc = "returned"
    /\ Len(response.devices) >= 2
    /\ order[1] > order[2]
    /\ probe[order[1]].alive
    /\ probe[order[2]].alive

\* C3: in every reachable state, also on the fallback path, devices holds at
\* most MaxHost entries, no address twice, and every address is the base of
\* the local IP followed by a host number in 1..MaxHost.
DevicesWithinSubnet ==
    /\ Len(devices) <= MaxHost
    /\ \A m, n \in 1..Len(devices) : m # n => devices[m].ip # devices[n].ip
    /\ \A n \in 1..Len(devices) :
         LET parts == SplitDot(devices[n].ip) IN
         /\ Len(parts) = 4
         /\ Prefix(parts, 3) = Prefix(SplitDot(local_ip), 3)
         /\ AllDigits(parts[4])
         /\ StrToInt(parts[4]) \in 1..MaxHost

\* C3 witness: the fallback call of run_scan has filled devices completely.
DevicesWithinSubnetWitness ==
    /\ run = "fallback"
    /\ pc = "save"
    /\ Len(devices) = MaxHost

\* C4: a probe that faulted while launching or awaiting its process resolves
\* with alive = false and nothing reaches the handler; a probe resolves with
\* alive = true only when its process exited with status 0; the address of a
\* faulted probe is in no report.
ProbeFaultIsDead ==
    \A k \in Tasks :
        /\ Resolved(k) => (probe[k].alive <=> (~probe[k].fault /\ probe[k].rc = 0))
        /\ probe[k].fault => (exc = "none" /\ ~response.error)
        /\ (probe[k].fault /\ pc = "returned") => targets[k] \notin IpsOf(response.devices)

\* C4 witness: a report was returned for a scan with a faulted probe and an
\* alive one.
ProbeFaultIsDeadWitness ==
    /\ pc = "returned"
    /\ \E k \in Tasks : probe[k].fault
    /\ \E k \in Tasks : probe[k].alive

\* C5: once a save has failed, no exception leaves the handler, and the report
\* that is returned carries the local IP and exactly the devices a scan with a
\* working sink returns for the same probe results.
SinkFailureHarmless ==
    SinkFailed =>
        /\ exc = "none"
        /\ pc \in {"stamp", "returned"}
        /\ pc = "returned" =>
             /\ response.status = 200
             /\ response.local_ip = local_ip
             /\ response.devices = AliveFrom(1)

\* C5 witness: a report with two devices was returned although the first save
\* failed.
SinkFailureHarmlessWitness ==
    /\ pc = "returned"
    /\ SinkFailed
    /\ Len(attempted) = 1
    /\ Len(response.devices) >= 2

\* C6: every invocation ends with a complete report or with one explicit
\* scan-level error response, and no exception leaves the handler, also when
\* the primary run and then the fallback run raise RuntimeError.
ReportOrErrorOnly ==
    Ended =>
        /\ exc = "none"
        /\ \/ /\ response.status = 200
              /\ response.stamped
              /\ ~response.error
              /\ AllResolved
           \/ /\ response.status = 500
              /\ response.error

\* C7: when a report is returned, save_scan_to_supabase has been called for
\* every device of the report, also for those after a device whose save
\* failed.
EveryDeviceAttempted ==
    pc = "returned" =>
        \A n \in 1..Len(response.devices) :
            \E m \in 1..Len(attempted) : attempted[m] = response.devices[n].ip

\* C8: an invocation moves Idle -> Scanning -> Completed (or Idle -> Failed);
\* the body of run_scan is entered and devices assembled at most once, exactly
\* once when a report is returned, also on the fallback path; Completed is
\* never left.
ScanEnteredOnce ==
    /\ [](/\ scanEntries <= 1
          /\ assemblies <= 1
          /\ pc = "returned" => (scanEntries = 1 /\ assemblies = 1))
    /\ [][Phase' # Phase =>
            <<Phase, Phase'>> \in { <<"Idle", "Scanning">>,
                                    <<"Scanning", "Completed">>,
                                    <<"Idle", "Failed">> }]_vars

\* C8 witness: a report was returned by the fallback call of run_scan.
ScanEnteredOnceWitness ==
    /\ pc = "returned"
    /\ run = "fallback"
    /\ scanEntries = 1

ScanTerminates == (pc = "try") ~> Ended

\* C10 witness: a report was returned for a scan in which one probe faulted
\* and another process exited with a non-zero status.
ScanTerminatesWitness ==
    /\ pc = "returned"
    /\ \E k \in Tasks : probe[k].fault
    /\ \E k \in Tasks : probe[k].rc = 1

====
